---- MODULE Spec2Model ----
(***************************************************************************)
(* Model of main.py: the contact fields (Name, Phone, Birthday), Record,   *)
(* AddressBook with its upcoming-birthday query, the command handlers      *)
(* wrapped by input_error, and the command loop of main().                 *)
(*                                                                         *)
(* Strings are sequences of one-character strings.  An input line is a     *)
(* sequence of lexemes, each a run of whitespace or a word.  Dates are     *)
(* records [year, month, day] of the proleptic Gregorian calendar.         *)
(***************************************************************************)
EXTENDS Integers, Sequences, FiniteSets, TLC

VARIABLES book, input, out, pc, today

vars == <<book, input, out, pc, today>>

(***************************************************************************)
(* Bounds of the model.                                                    *)
(***************************************************************************)
\* longest phone list a record is allowed to grow to
MaxPhones == 2
\* longest raw string handed to Phone in SpecPhone
MaxPhoneLen == 17

(***************************************************************************)
(* Characters and strings.                                                 *)
(***************************************************************************)
Digits == {"0", "1", "2", "3", "4", "5", "6", "7", "8", "9"}

DigitVal ==
  [c \in Digits |->
     CASE c = "0" -> 0 [] c = "1" -> 1 [] c = "2" -> 2 [] c = "3" -> 3
       [] c = "4" -> 4 [] c = "5" -> 5 [] c = "6" -> 6 [] c = "7" -> 7
       [] c = "8" -> 8 [] c = "9" -> 9]

DigitChar == <<"0", "1", "2", "3", "4", "5", "6", "7", "8", "9">>

\* str.isdigit(): non-empty and every character a digit
isdigit(s) == Len(s) > 0 /\ \A i \in 1..Len(s) : s[i] \in Digits

\* str.isspace(): non-empty and every character whitespace
isspace(s) == Len(s) > 0 /\ \A i \in 1..Len(s) : s[i] = " "

\* value[1:]
Slice1(s) == SubSeq(s, 2, Len(s))

\* int(s) of a digit string
RECURSIVE NumVal(_)
NumVal(s) ==
  IF Len(s) = 0 THEN 0
  ELSE NumVal(SubSeq(s, 1, Len(s) - 1)) * 10 + DigitVal[s[Len(s)]]

(***************************************************************************)
(* Phone: the validating setter of Phone.value.                            *)
(***************************************************************************)
PhoneValid_wholeIsDigit(value) == Len(value) <= 15 /\ isdigit(value)

PhoneValid(value) == Len(Slice1(value)) <= 15 /\ isdigit(Slice1(value))

\* Phone(value): the constructed field, or the ValueError of the setter
Phone(value) ==
  IF PhoneValid(value)
    THEN [ok |-> TRUE, value |-> value, exc |-> ""]
    ELSE [ok |-> FALSE, value |-> <<>>, exc |-> "Wrong telephone number"]

(***************************************************************************)
(* Calendar: datetime.date, timedelta, weekday, strptime, strftime.        *)
(***************************************************************************)
IsLeap(y) == y % 4 = 0 /\ (y % 100 # 0 \/ y % 400 = 0)

DaysInMonth(y, m) ==
  IF m = 2 THEN (IF IsLeap(y) THEN 29 ELSE 28)
  ELSE IF m \in {4, 6, 9, 11} THEN 30 ELSE 31

\* the (year, month, day) triples datetime.date accepts
ValidDate(y, m, d) ==
  /\ y \in 1..9999
  /\ m \in 1..12
  /\ d >= 1
  /\ d <= DaysInMonth(y, m)

Date(y, m, d) == [year |-> y, month |-> m, day |-> d]

\* the value None where a date is expected
NoneDate == Date(0, 0, 0)

DaysBeforeYear(y) ==
  LET p == y - 1 IN p * 365 + (p \div 4) - (p \div 100) + (p \div 400)

RECURSIVE DaysBeforeMonth(_, _)
DaysBeforeMonth(y, m) ==
  IF m = 1 THEN 0 ELSE DaysBeforeMonth(y, m - 1) + DaysInMonth(y, m - 1)

\* date.toordinal()
toordinal(dt) == DaysBeforeYear(dt.year) + DaysBeforeMonth(dt.year, dt.month) + dt.day

\* date.weekday(): Monday is 0, Sunday is 6
weekday(dt) == (toordinal(dt) + 6) % 7

NextDay(dt) ==
  IF dt.day < DaysInMonth(dt.year, dt.month) THEN Date(dt.year, dt.month, dt.day + 1)
  ELSE IF dt.month < 12 THEN Date(dt.year, dt.month + 1, 1)
  ELSE Date(dt.year + 1, 1, 1)

\* date + timedelta(days = n), n >= 0
RECURSIVE AddDays(_, _)
AddDays(dt, n) == IF n = 0 THEN dt ELSE AddDays(NextDay(dt), n - 1)

\* date <= date
DateLE(a, b) == toordinal(a) <= toordinal(b)

\* the fields of s between the separators "."
DotPositions(s) == {i \in 1..Len(s) : s[i] = "."}

\* the directive %d of strptime: 1..31 with optional leading zero or space
MatchDay(f) ==
  \/ Len(f) = 1 /\ isdigit(f) /\ NumVal(f) \in 1..9
  \/ Len(f) = 2 /\ isdigit(f) /\ NumVal(f) \in 1..31
  \/ Len(f) = 2 /\ f[1] = " " /\ isdigit(<<f[2]>>) /\ NumVal(<<f[2]>>) \in 1..9

\* the directive %m of strptime: 1..12 with optional leading zero
MatchMonth(f) ==
  \/ Len(f) = 1 /\ isdigit(f) /\ NumVal(f) \in 1..9
  \/ Len(f) = 2 /\ isdigit(f) /\ NumVal(f) \in 1..12

\* the directive %Y of strptime: four digits
MatchYear(f) == Len(f) = 4 /\ isdigit(f)

\* datetime.strptime(value, "%d.%m.%Y").date(), or the ValueError
strptime(value) ==
  LET dots == DotPositions(value) IN
  IF Cardinality(dots) # 2 THEN [ok |-> FALSE, date |-> NoneDate]
  ELSE
    LET i == CHOOSE k \in dots : \A l \in dots : k <= l
        j == CHOOSE k \in dots : \A l \in dots : l <= k
        fd == SubSeq(value, 1, i - 1)
        fm == SubSeq(value, i + 1, j - 1)
        fy == SubSeq(value, j + 1, Len(value))
        num(f) == NumVal(SelectSeq(f, LAMBDA c : c \in Digits))
    IN IF MatchDay(fd) /\ MatchMonth(fm) /\ MatchYear(fy)
            /\ ValidDate(num(fy), num(fm), num(fd))
         THEN [ok |-> TRUE, date |-> Date(num(fy), num(fm), num(fd))]
         ELSE [ok |-> FALSE, date |-> NoneDate]

Fmt2(n) == <<DigitChar[((n \div 10) % 10) + 1], DigitChar[(n % 10) + 1]>>

Fmt4(n) == Fmt2(n \div 100) \o Fmt2(n % 100)

\* date.strftime("%d,%m,%Y")
strftime(dt) == Fmt2(dt.day) \o <<",">> \o Fmt2(dt.month) \o <<",">> \o Fmt4(dt.year)

(***************************************************************************)
(* Birthday and Record.  A record is [name, phones, birthday]; phones is   *)
(* the list of the Phone values in order, birthday is <<>> for None or a   *)
(* one-element sequence holding the Birthday's value and parsed date.      *)
(***************************************************************************)
\* Name(value): stored as given
Name(value) == value

\* Birthday(value): the constructed field, or its ValueError
Birthday(value) ==
  LET parsed == strptime(value) IN
  IF parsed.ok
    THEN [ok |-> TRUE, field |-> [value |-> value, date |-> parsed.date], exc |-> ""]
    ELSE [ok |-> FALSE, field |-> [value |-> <<>>, date |-> NoneDate],
          exc |-> "Wrong date, expected DD.MM.YYYY"]

\* Record(name)
Record(name) == [name |-> Name(name), phones |-> <<>>, birthday |-> <<>>]

\* the positions of the phones whose value is phone
PhoneMatches(rec, phone) == {i \in 1..Len(rec.phones) : rec.phones[i] = phone}

\* the first position of the loop `for p in self.phones` where p.value == phone
FirstMatch(rec, phone) ==
  CHOOSE i \in PhoneMatches(rec, phone) : \A k \in PhoneMatches(rec, phone) : i <= k

\* Record.add_phone
add_phone(rec, phone) ==
  LET p == Phone(phone) IN
  IF p.ok
    THEN [rec |-> [rec EXCEPT !.phones = Append(@, p.value)], exc |-> ""]
    ELSE [rec |-> rec, exc |-> "Error adding phone: Wrong telephone number"]

\* Record.remove_phone
remove_phone(rec, phone) ==
  IF PhoneMatches(rec, phone) = {}
    THEN [rec |-> rec, exc |-> "Phone number not found in record."]
    ELSE LET i == FirstMatch(rec, phone) IN
         [rec |-> [rec EXCEPT !.phones =
                      SubSeq(@, 1, i - 1) \o SubSeq(@, i + 1, Len(@))],
          exc |-> ""]

edit_phone_assignFirst(rec, old_phone, new_phone) ==
  IF PhoneMatches(rec, old_phone) = {}
    THEN [rec |-> rec, exc |-> "Phone number not found in record."]
    ELSE LET i == FirstMatch(rec, old_phone)
             p == Phone(new_phone)
         IN [rec |-> [rec EXCEPT !.phones[i] = new_phone],
             exc |-> IF p.ok THEN "" ELSE "Error: Wrong telephone number"]

\* Record.edit_phone
edit_phone(rec, old_phone, new_phone) ==
  IF PhoneMatches(rec, old_phone) = {}
    THEN [rec |-> rec, exc |-> "Phone number not found in record."]
    ELSE LET i == FirstMatch(rec, old_phone)
             p == Phone(new_phone)
         IN IF p.ok
              THEN [rec |-> [rec EXCEPT !.phones[i] = p.value], exc |-> ""]
              ELSE [rec |-> rec, exc |-> "Error: Wrong telephone number"]

\* Record.find_phone: the position of the phone found, 0 for None
find_phone(rec, phone) ==
  IF PhoneMatches(rec, phone) = {} THEN 0 ELSE FirstMatch(rec, phone)

\* Record.add_birthday
rec_add_birthday(rec, birthday) ==
  LET b == Birthday(birthday) IN
  IF b.ok
    THEN [rec |-> [rec EXCEPT !.birthday = <<b.field>>], exc |-> ""]
    ELSE [rec |-> rec, exc |-> "Error adding birthday: Wrong date, expected DD.MM.YYYY"]

RECURSIVE JoinPhones(_)
JoinPhones(phones) ==
  IF Len(phones) = 0 THEN <<>>
  ELSE IF Len(phones) = 1 THEN phones[1]
  ELSE phones[1] \o <<", ">> \o JoinPhones(Tail(phones))

\* Record.__str__
RecordStr(rec) ==
  <<"Contact name: ">> \o rec.name \o <<", phones: ">> \o JoinPhones(rec.phones)
    \o <<", birthday: ">>
    \o (IF rec.birthday # <<>> THEN rec.birthday[1].value ELSE <<"None">>)

(***************************************************************************)
(* AddressBook: the dictionary self.data as the sequence of its records in *)
(* insertion order, keyed by record.name.                                  *)
(***************************************************************************)
Keys(data) == {data[i].name : i \in 1..Len(data)}

\* the position of key name in data, 0 when the key is absent
KeyIndex(data, name) ==
  IF name \in Keys(data)
    THEN CHOOSE i \in 1..Len(data) : data[i].name = name
    ELSE 0

\* AddressBook.add_record: self.data[record.name.value] = record
add_record(data, record) ==
  LET i == KeyIndex(data, record.name) IN
  IF i = 0 THEN Append(data, record) ELSE [data EXCEPT ![i] = record]

\* AddressBook.find: the position of the record, 0 for None
find(data, name) == KeyIndex(data, name)

\* AddressBook.delete: del self.data[name]
delete(data, name) ==
  LET i == KeyIndex(data, name) IN
  IF i = 0 THEN [data |-> data, exc |-> "KeyError"]
  ELSE [data |-> SubSeq(data, 1, i - 1) \o SubSeq(data, i + 1, Len(data)), exc |-> ""]

find_next_weekday_offByOne(day, wd) ==
  LET days_ahead == wd - weekday(day) IN
  IF days_ahead <= 0 THEN AddDays(day, days_ahead + 8) ELSE NoneDate

\* AddressBook.find_next_weekday: None when days_ahead > 0
find_next_weekday(day, wd) ==
  LET days_ahead == wd - weekday(day) IN
  IF days_ahead <= 0
    THEN LET next_weekday == AddDays(day, days_ahead + 7) IN
         IF weekday(next_weekday) \in {5, 6}
           THEN AddDays(next_weekday, 7 - weekday(next_weekday))
           ELSE next_weekday
    ELSE NoneDate

\* date.replace(year = y), or its ValueError
replace_year(dt, y) ==
  IF ValidDate(y, dt.month, dt.day)
    THEN [ok |-> TRUE, date |-> Date(y, dt.month, dt.day)]
    ELSE [ok |-> FALSE, date |-> NoneDate]

\* next_week = current_date + timedelta(weeks=1); the argument days is not used
next_week(current_date, days) == AddDays(current_date, 7)

InWindow_noLowerBound(current_date, next_birthday, nw) == DateLE(next_birthday, nw)

\* current_date <= next_birthday <= next_week
InWindow(current_date, next_birthday, nw) ==
  DateLE(current_date, next_birthday) /\ DateLE(next_birthday, nw)

\* the body of `if current_date <= next_birthday <= next_week:`: the entry
\* appended for the record, or the AttributeError of None.strftime
Congratulate(rec, next_birthday) ==
  LET rolled == IF weekday(next_birthday) \in {5, 6}
                  THEN find_next_weekday(next_birthday, 0)
                  ELSE next_birthday
  IN IF rolled = NoneDate
       THEN [exc |-> "'NoneType' object has no attribute 'strftime'", items |-> <<>>]
       ELSE [exc |-> "", items |-> <<rec.name \o <<":", " ">> \o strftime(rolled)>>]

\* one iteration of `for record in self.values()`
UpcomingOf(rec, current_date, nw) ==
  IF rec.birthday = <<>> THEN [exc |-> "", items |-> <<>>]
  ELSE
    LET this_year == replace_year(rec.birthday[1].date, current_date.year) IN
    IF ~this_year.ok THEN [exc |-> "day is out of range for month", items |-> <<>>]
    ELSE IF InWindow(current_date, this_year.date, nw)
      THEN Congratulate(rec, this_year.date)
    ELSE IF ~DateLE(current_date, this_year.date)
      THEN LET following == replace_year(rec.birthday[1].date, current_date.year + 1) IN
           IF ~following.ok THEN [exc |-> "day is out of range for month", items |-> <<>>]
           ELSE IF InWindow(current_date, following.date, nw)
             THEN Congratulate(rec, following.date)
           ELSE [exc |-> "", items |-> <<>>]
    ELSE [exc |-> "", items |-> <<>>]

\* the loop of get_upcoming_birthdays from record i on; stops at the first exception
RECURSIVE UpcomingFrom(_, _, _, _, _)
UpcomingFrom(data, i, current_date, nw, acc) ==
  IF i > Len(data) THEN [exc |-> "", items |-> acc]
  ELSE LET r == UpcomingOf(data[i], current_date, nw) IN
       IF r.exc # "" THEN [exc |-> r.exc, items |-> <<>>]
       ELSE UpcomingFrom(data, i + 1, current_date, nw, acc \o r.items)

\* AddressBook.get_upcoming_birthdays(days) with datetime.today().date() = current_date
get_upcoming_birthdays(data, days, current_date) ==
  UpcomingFrom(data, 1, current_date, next_week(current_date, days), <<>>)

(***************************************************************************)
(* The command handlers.  A handler yields the new content of the book,    *)
(* the value it returns and the message of the exception it raises ("" for *)
(* none).  A value printed by main is [kind, text, items].                 *)
(***************************************************************************)
Text(t) == [kind |-> "text", text |-> t, items |-> <<>>]

TextWith(t, xs) == [kind |-> "text", text |-> t, items |-> xs]

List(xs) == [kind |-> "list", text |-> "", items |-> xs]

Returns(data, value) == [data |-> data, ret |-> value, exc |-> ""]

Raises(data, message) == [data |-> data, ret |-> Text(""), exc |-> message]

\* input_error: the wrapper returns str(e) for any exception of the handler
input_error(result) ==
  [data |-> result.data,
   printed |-> IF result.exc # "" THEN Text(result.exc) ELSE result.ret]

\* add_contact
add_contact(args, data) ==
  IF Len(args) # 2 THEN Raises(data, "'Expected Name and Phone number'")
  ELSE
    LET name == args[1]
        phone == args[2]
        found == find(data, name)
        data1 == IF found = 0 THEN add_record(data, Record(name)) ELSE data
        message == IF found = 0 THEN "Contact added." ELSE "Contact updated."
        i == find(data1, name)
    IN IF Len(phone) > 0
         THEN LET r == add_phone(data1[i], phone) IN
              IF r.exc # "" THEN Raises(data1, r.exc)
              ELSE Returns([data1 EXCEPT ![i] = r.rec], Text(message))
         ELSE Returns(data1, Text(message))

\* change_contact
change_contact(args, data) ==
  IF Len(args) # 3
    THEN Raises(data, "' Wrong arguments, expected - Name, OldNumber, NewNumber'")
  ELSE
    LET i == find(data, args[1]) IN
    IF i = 0 THEN Raises(data, "Name not found")
    ELSE LET r == edit_phone(data[i], args[2], args[3]) IN
         IF r.exc # "" THEN Raises([data EXCEPT ![i] = r.rec], r.exc)
         ELSE Returns([data EXCEPT ![i] = r.rec], Text("Contact updated."))

\* show_phones
show_phones(args, data) ==
  IF Len(args) # 1 THEN Raises(data, "'Expected Name'")
  ELSE
    LET i == find(data, args[1]) IN
    IF i = 0 THEN Raises(data, "Name not found")
    ELSE Returns(data, List(data[i].phones))

\* show_all: the descriptions of the records, one per line
show_all(data) ==
  Returns(data, TextWith("lines", [i \in 1..Len(data) |-> RecordStr(data[i])]))

\* add_birthday
add_birthday(args, data) ==
  IF Len(args) < 2 THEN Raises(data, "not enough values to unpack")
  ELSE IF Len(args) > 2 THEN Raises(data, "too many values to unpack")
  ELSE
    LET name == args[1]
        birthday == args[2]
        i == find(data, name)
    IN IF i # 0
         THEN LET r == rec_add_birthday(data[i], birthday) IN
              IF r.exc # "" THEN Raises(data, r.exc)
              ELSE Returns([data EXCEPT ![i] = r.rec],
                           TextWith("Birthday added for", <<name>>))
         ELSE LET r == rec_add_birthday(Record(name), birthday) IN
              IF r.exc # "" THEN Raises(data, r.exc)
              ELSE Returns(add_record(data, r.rec),
                           TextWith("New contact created with birthday", <<name, birthday>>))

\* show_birthday
show_birthday(args, data) ==
  IF Len(args) < 1 THEN Raises(data, "not enough values to unpack")
  ELSE
    LET name == args[1]
        i == find(data, name)
    IN IF i # 0
         THEN IF data[i].birthday = <<>>
                THEN Raises(data, "'NoneType' object has no attribute 'value'")
                ELSE Returns(data, TextWith("'s birthday is on",
                                            <<data[i].name, data[i].birthday[1].value>>))
         ELSE Returns(data, TextWith("No contact found with name", <<name>>))

\* birthdays, with datetime.today().date() = current_date
birthdays(args, data, current_date) ==
  LET r == get_upcoming_birthdays(data, 7, current_date) IN
  IF r.exc # "" THEN Raises(data, r.exc)
  ELSE IF r.items # <<>> THEN Returns(data, List(r.items))
  ELSE Returns(data, List(<<<<"No birthdays this week">>>>))

(***************************************************************************)
(* Input lines and parse_input.                                            *)
(***************************************************************************)
\* a run of whitespace between two words
WS == <<" ">>

\* str.split(): the words of the line, without the whitespace
split(line) == SelectSeq(line, LAMBDA lexeme : ~isspace(lexeme))

\* parse_input: parts[0] raises IndexError when the line has no word
parse_input(user_input) ==
  LET parts == split(user_input) IN
  IF Len(parts) = 0 THEN [ok |-> FALSE, command |-> <<>>, args |-> <<>>]
  ELSE [ok |-> TRUE, command |-> Head(parts), args |-> Tail(parts)]

\* the command words of main
kwClose == <<"c", "l", "o", "s", "e">>
kwExit == <<"e", "x", "i", "t">>
kwHello == <<"h", "e", "l", "l", "o">>
kwAdd == <<"a", "d", "d">>
kwChange == <<"c", "h", "a", "n", "g", "e">>
kwPhone == <<"p", "h", "o", "n", "e">>
kwAll == <<"a", "l", "l">>
kwAddBirthday == <<"a", "d", "d", "-", "b", "i", "r", "t", "h", "d", "a", "y">>
kwShowBirthday == <<"s", "h", "o", "w", "-", "b", "i", "r", "t", "h", "d", "a", "y">>
kwBirthdays == <<"b", "i", "r", "t", "h", "d", "a", "y", "s">>

Keywords ==
  {kwClose, kwExit, kwHello, kwAdd, kwChange, kwPhone, kwAll,
   kwAddBirthday, kwShowBirthday, kwBirthdays}

(***************************************************************************)
(* The words and lines fed to the program.                                 *)
(***************************************************************************)
NameAnn == <<"A", "n", "n">>
NameBob == <<"B", "o", "b">>
CliNames == {NameAnn, NameBob}

Ph10 == <<"1", "2", "3", "4", "5", "6", "7", "8", "9", "0">>
PhPlus == <<"+", "1", "2">>
PhLetters == <<"1", "2", "x", "4">>
PhoneWords == {Ph10, PhPlus, PhLetters}

BdSaturday == <<"0", "4", ".", "0", "1", ".", "2", "0", "0", "3">>
BdSunday == <<"0", "5", ".", "0", "1", ".", "1", "9", "9", "0">>
BdLeapDay == <<"2", "9", ".", "0", "2", ".", "2", "0", "0", "0">>
BdImpossible == <<"3", "1", ".", "0", "2", ".", "2", "0", "2", "4">>
DateWords == {BdSaturday, BdSunday, BdLeapDay, BdImpossible}

\* the values datetime.today().date() takes
Todays ==
  {Date(2024, 2, 25), Date(2024, 12, 28), Date(2024, 12, 29),
   Date(2025, 1, 5), Date(2025, 2, 24)}

RECURSIVE join(_)
\* the words separated by single spaces
join(words) ==
  IF Len(words) = 0 THEN <<>>
  ELSE IF Len(words) = 1 THEN <<words[1]>>
  ELSE <<words[1], WS>> \o join(Tail(words))

\* lines of every shape the loop distinguishes, without arguments
ControlLines ==
  {<<>>, <<WS>>, <<WS, kwHello, WS>>, <<kwHello>>, <<kwAll>>, <<kwClose>>, <<kwExit>>,
   <<kwExit, WS, kwAdd>>, <<NameAnn>>, <<kwBirthdays>>, <<kwBirthdays, WS, NameAnn>>,
   <<kwAdd>>, <<kwChange>>, <<kwPhone>>, <<kwAddBirthday>>, <<kwShowBirthday>>}

\* the lines of a session that works on the phones
PhoneLines ==
  ControlLines
    \cup {join(<<kwAdd, n>>) : n \in CliNames}
    \cup {join(<<kwAdd, n, p>>) : n \in CliNames, p \in PhoneWords}
    \cup {join(<<kwAdd, NameAnn, Ph10, PhPlus>>)}
    \cup {join(<<kwChange, NameAnn, Ph10>>)}
    \cup {join(<<kwChange, n, p, q>>) : n \in CliNames, p \in PhoneWords, q \in PhoneWords}
    \cup {join(<<kwPhone, n>>) : n \in CliNames}
    \cup {join(<<kwPhone, NameAnn, NameBob>>)}
    \cup {join(<<kwAddBirthday, NameAnn, BdImpossible>>)}
    \cup {join(<<kwShowBirthday, n>>) : n \in CliNames}

\* the lines of a session that works on the birthdays
BirthdayLines ==
  ControlLines
    \cup {join(<<kwAdd, n, Ph10>>) : n \in CliNames}
    \cup {join(<<kwChange, NameAnn, Ph10, PhPlus>>)}
    \cup {join(<<kwPhone, NameAnn>>)}
    \cup {join(<<kwAddBirthday, n>>) : n \in CliNames}
    \cup {join(<<kwAddBirthday, n, d>>) : n \in CliNames, d \in DateWords}
    \cup {join(<<kwAddBirthday, NameAnn, BdSunday, BdSunday>>)}
    \cup {join(<<kwShowBirthday, n>>) : n \in CliNames}
    \cup {join(<<kwShowBirthday, NameAnn, NameBob>>)}

\* no record has grown beyond the bound of the model
WithinBounds(data) == \A i \in 1..Len(data) : Len(data[i].phones) <= MaxPhones

(***************************************************************************)
(* main(): the command loop.  pc is "reading" while the loop waits for a   *)
(* line, "stopped" after close or exit, "crashed" after an exception that  *)
(* nothing catches.  input is the line read last, out the value printed    *)
(* last, today the date datetime.today() gave to the command handled last  *)
(* (NoneDate when that command did not read the clock).                    *)
(***************************************************************************)
Init ==
  /\ book = <<>>
  /\ input = <<>>
  /\ out = Text("Welcome to the assistant bot!")
  /\ pc = "reading"
  /\ today = NoneDate

\* a line is read and parse_input returns command
Read(line, command) ==
  /\ pc = "reading"
  /\ LET parsed == parse_input(line) IN parsed.ok /\ parsed.command = command
  /\ input' = line

\* a decorated handler ran and main printed what it returned
Handled(result) ==
  LET w == input_error(result) IN
  /\ WithinBounds(w.data)
  /\ book' = w.data
  /\ out' = w.printed
  /\ pc' = "reading"

\* parse_input raises IndexError: the process ends with a traceback
CmdNoWord(L) ==
  \E line \in L :
    /\ pc = "reading"
    /\ ~parse_input(line).ok
    /\ input' = line
    /\ out' = Text("Traceback")
    /\ pc' = "crashed"
    /\ today' = NoneDate
    /\ UNCHANGED book

CmdClose(L) ==
  \E line \in L, command \in {kwClose, kwExit} :
    /\ Read(line, command)
    /\ out' = Text("Good bye!")
    /\ pc' = "stopped"
    /\ today' = NoneDate
    /\ UNCHANGED book

CmdHello(L) ==
  \E line \in L :
    /\ Read(line, kwHello)
    /\ out' = Text("How can I help you?")
    /\ today' = NoneDate
    /\ UNCHANGED <<book, pc>>

CmdAdd(L) ==
  \E line \in L :
    /\ Read(line, kwAdd)
    /\ Handled(add_contact(parse_input(line).args, book))
    /\ today' = NoneDate

CmdChange(L) ==
  \E line \in L :
    /\ Read(line, kwChange)
    /\ Handled(change_contact(parse_input(line).args, book))
    /\ today' = NoneDate

CmdPhone(L) ==
  \E line \in L :
    /\ Read(line, kwPhone)
    /\ Handled(show_phones(parse_input(line).args, book))
    /\ today' = NoneDate

CmdAll(L) ==
  \E line \in L :
    /\ Read(line, kwAll)
    /\ Handled(show_all(book))
    /\ today' = NoneDate

CmdAddBirthday(L) ==
  \E line \in L :
    /\ Read(line, kwAddBirthday)
    /\ Handled(add_birthday(parse_input(line).args, book))
    /\ today' = NoneDate

CmdShowBirthday(L) ==
  \E line \in L :
    /\ Read(line, kwShowBirthday)
    /\ Handled(show_birthday(parse_input(line).args, book))
    /\ today' = NoneDate

\* the handler reads the clock: datetime.today().date() = current_date
CmdBirthdays(L) ==
  \E line \in L, current_date \in Todays :
    /\ Read(line, kwBirthdays)
    /\ Handled(birthdays(parse_input(line).args, book, current_date))
    /\ today' = current_date

CmdInvalid(L) ==
  \E line \in L :
    /\ pc = "reading"
    /\ parse_input(line).ok
    /\ parse_input(line).command \notin Keywords
    /\ input' = line
    /\ out' = Text("Invalid command.")
    /\ today' = NoneDate
    /\ UNCHANGED <<book, pc>>

NextOn(L) ==
  \/ CmdNoWord(L)
  \/ CmdClose(L)
  \/ CmdHello(L)
  \/ CmdAdd(L)
  \/ CmdChange(L)
  \/ CmdPhone(L)
  \/ CmdAll(L)
  \/ CmdAddBirthday(L)
  \/ CmdShowBirthday(L)
  \/ CmdBirthdays(L)
  \/ CmdInvalid(L)

Next == NextOn(PhoneLines)

\* the program in a session that works on the phones
Spec == Init /\ [][Next]_vars

NextBirthdays == NextOn(BirthdayLines)

\* the program in a session that works on the birthdays
SpecBirthdays == Init /\ [][NextBirthdays]_vars

(***************************************************************************)
(* The classes used directly, without the command loop: a client creates   *)
(* records, adds them to an AddressBook, sets birthdays, deletes keys and  *)
(* asks for the upcoming birthdays.  input is the call made last, out its  *)
(* outcome: kind "returned" or "raised".                                   *)
(***************************************************************************)
NameEmpty == <<>>
NameBlank == <<" ">>
ApiNames == {NameEmpty, NameBlank, NameAnn}

\* the values passed as the argument days of get_upcoming_birthdays
WindowDays == {0, 7}

Call(op, args) == [op |-> op, args |-> args]

Outcome(exc, items) ==
  [kind |-> IF exc # "" THEN "raised" ELSE "returned", text |-> exc, items |-> items]

InitBook ==
  /\ book = <<>>
  /\ input = Call("AddressBook", <<>>)
  /\ out = Outcome("", <<>>)
  /\ pc = "client"
  /\ today = NoneDate

\* book.add_record(Record(name))
ApiAddRecord ==
  \E name \in ApiNames :
    /\ book' = add_record(book, Record(name))
    /\ input' = Call("add_record", <<name>>)
    /\ out' = Outcome("", <<>>)
    /\ today' = NoneDate
    /\ UNCHANGED pc

\* book.delete(name)
ApiDelete ==
  \E name \in ApiNames :
    LET r == delete(book, name) IN
    /\ book' = r.data
    /\ input' = Call("delete", <<name>>)
    /\ out' = Outcome(r.exc, <<>>)
    /\ today' = NoneDate
    /\ UNCHANGED pc

\* book.find(name).add_birthday(birthday) for a record of the book
ApiAddBirthday ==
  \E name \in ApiNames, birthday \in DateWords :
    /\ find(book, name) # 0
    /\ LET i == find(book, name)
           r == rec_add_birthday(book[i], birthday)
       IN /\ book' = [book EXCEPT ![i] = r.rec]
          /\ out' = Outcome(r.exc, <<>>)
    /\ input' = Call("add_birthday", <<name, birthday>>)
    /\ today' = NoneDate
    /\ UNCHANGED pc

\* book.get_upcoming_birthdays(days) with datetime.today().date() = current_date
ApiUpcoming ==
  \E days \in WindowDays, current_date \in Todays :
    LET r == get_upcoming_birthdays(book, days, current_date) IN
    /\ input' = Call("get_upcoming_birthdays", <<days>>)
    /\ out' = Outcome(r.exc, r.items)
    /\ today' = current_date
    /\ UNCHANGED <<book, pc>>

NextBook ==
  \/ ApiAddRecord
  \/ ApiDelete
  \/ ApiAddBirthday
  \/ ApiUpcoming

SpecBook == InitBook /\ [][NextBook]_vars

(***************************************************************************)
(* Specification of Phone construction over all short raw strings.         *)
(***************************************************************************)
PhoneChars == {"7", "+"}

RawStrings == UNION {[1..n -> PhoneChars] : n \in 0..MaxPhoneLen}

InitPhone ==
  /\ input \in RawStrings
  /\ out = [ok |-> FALSE, value |-> <<>>, exc |-> ""]
  /\ pc = "raw"
  /\ book = <<>>
  /\ today = NoneDate

\* p = Phone(input)
MakePhone ==
  /\ pc = "raw"
  /\ out' = Phone(input)
  /\ pc' = "made"
  /\ UNCHANGED <<book, input, today>>

NextPhone == MakePhone

SpecPhone == InitPhone /\ [][NextPhone]_vars

\* C6 as stated: construction succeeds exactly on the strings of 10 digits,
\* and then .value is the input.
C6_TenDigitsOnly ==
  pc = "made" =>
    /\ out.ok <=> (Len(input) = 10 /\ \A i \in 1..Len(input) : input[i] \in Digits)
    /\ out.ok => out.value = input

\* C6 amended: construction succeeds exactly on the strings made of one
\* leading character of any kind followed by 1 to 15 digits, and then
\* .value is the input unchanged; every other string is rejected.
C6_LeadingCharThenDigits ==
  pc = "made" =>
    /\ out.ok <=> (/\ Len(input) >= 2
                   /\ Len(input) <= 16
                   /\ \A i \in 2..Len(input) : input[i] \in Digits)
    /\ out.ok => out.value = input
    /\ ~out.ok => out.exc = "Wrong telephone number"

\* a non-digit leading character followed by digits was accepted
C6_Witness ==
  /\ pc = "made"
  /\ out.ok
  /\ Len(input) = 16
  /\ input[1] = "+"
  /\ out.value = input

(***************************************************************************)
(* Reading the state for the properties.                                   *)
(***************************************************************************)
\* the entries "name: dd,mm,yyyy" among the items printed or returned
Entries == {out.items[i] : i \in {k \in 1..Len(out.items) : Len(out.items[k]) >= 12}}

\* the name and the date an entry carries
EntryName(e) == SubSeq(e, 1, Len(e) - 12)

EntryDate(e) ==
  LET t == SubSeq(e, Len(e) - 9, Len(e)) IN
  Date(NumVal(SubSeq(t, 7, 10)), NumVal(SubSeq(t, 4, 5)), NumVal(SubSeq(t, 1, 2)))

\* the command handled last was birthdays and the loop went on
BirthdaysRan == pc = "reading" /\ today # NoneDate

\* the handler returned a list of entries, not the text of an exception
BirthdaysListed == BirthdaysRan /\ out.kind = "list"

\* the next day on or after t that has the month and day of the birthday b
NextOccurrence(b, t) ==
  LET cands == {d \in {Date(y, b.month, b.day) : y \in t.year..(t.year + 8)} :
                  ValidDate(d.year, d.month, d.day) /\ DateLE(t, d)}
  IN CHOOSE d \in cands : \A e \in cands : DateLE(d, e)

\* the first Monday after d
FirstMondayAfter(d) ==
  CHOOSE m \in {AddDays(d, k) : k \in 1..7} : weekday(m) = 0

\* the birthday of the record named n
BirthdayOf(n) == book[KeyIndex(book, n)].birthday[1].date

IsLeapDay(rec) ==
  rec.birthday # <<>> /\ rec.birthday[1].date.month = 2 /\ rec.birthday[1].date.day = 29

\* the year used for the candidate of a 29 February birthday: the current
\* year, or the next one when the date has already passed
CandidateYear(t) ==
  LET last == IF IsLeap(t.year) THEN 29 ELSE 28 IN
  IF DateLE(t, Date(t.year, 2, last)) THEN t.year ELSE t.year + 1

(***************************************************************************)
(* Properties of the command loop.                                         *)
(***************************************************************************)
\* C1: when add_contact(name, phone) is called for a name that is not in the
\* book and the phone is rejected, the call fails and the book has no
\* record for that name afterwards.
C1_NoPartialRecord ==
  [][\A n \in CliNames, p \in PhoneWords :
       (/\ pc = "reading"
        /\ input' = join(<<kwAdd, n, p>>)
        /\ find(book, n) = 0
        /\ ~Phone(p).ok)
       => (/\ out' = Text("Error adding phone: Wrong telephone number")
           /\ find(book', n) = 0)]_vars

\* C2: a failing edit of a phone (old value not among the record's phones,
\* or new value rejected by the validation) leaves the record's phone
\* sequence as it was before the call.
C2_EditPhoneAtomic ==
  [][\A n \in CliNames, o \in PhoneWords, q \in PhoneWords :
       (/\ pc = "reading"
        /\ input' = join(<<kwChange, n, o, q>>)
        /\ find(book, n) # 0
        /\ (\A i \in 1..Len(book[find(book, n)].phones) :
               book[find(book, n)].phones[i] # o) \/ ~Phone(q).ok)
       => (/\ out'.text \in {"Phone number not found in record.",
                             "Error: Wrong telephone number"}
           /\ find(book', n) = find(book, n)
           /\ book'[find(book, n)].phones = book[find(book, n)].phones)]_vars

\* an edit failed on its new value while the old value was the second of
\* two phones of the record
C2_Witness ==
  /\ pc = "reading"
  /\ input = join(<<kwChange, NameAnn, PhPlus, PhLetters>>)
  /\ out = Text("Error: Wrong telephone number")
  /\ find(book, NameAnn) # 0
  /\ book[find(book, NameAnn)].phones = <<Ph10, PhPlus>>

C4_WeekendRollsForward ==
  BirthdaysListed =>
    \A e \in Entries :
      LET occ == NextOccurrence(BirthdayOf(EntryName(e)), today) IN
      /\ weekday(occ) \in 0..4 => EntryDate(e) = occ
      /\ weekday(occ) \in {5, 6} => EntryDate(e) = FirstMondayAfter(occ)
      /\ weekday(EntryDate(e)) \notin {5, 6}

\* a birthday that falls today, a Sunday, is reported for tomorrow
C4_Witness ==
  /\ BirthdaysListed
  /\ weekday(today) = 6
  /\ \E e \in Entries :
       /\ NextOccurrence(BirthdayOf(EntryName(e)), today) = today
       /\ EntryDate(e) = AddDays(today, 1)

\* C7: with a 29 February birthday in the book and a candidate year that is
\* not a leap year, the upcoming birthdays are still returned, and that
\* record is listed with 28 February as its candidate when that day is
\* within the window.
C7_LeapDayFallback ==
  (BirthdaysRan /\ \E i \in 1..Len(book) :
                     IsLeapDay(book[i]) /\ ~IsLeap(CandidateYear(today)))
  => /\ out.kind = "list"
     /\ \A i \in 1..Len(book) :
          LET cand == Date(CandidateYear(today), 2, 28) IN
          (IsLeapDay(book[i]) /\ toordinal(cand) <= toordinal(today) + 7)
          => \E e \in Entries :
               /\ EntryName(e) = book[i].name
               /\ EntryDate(e) = (IF weekday(cand) \in {5, 6}
                                    THEN FirstMondayAfter(cand) ELSE cand)

\* C9: the loop stops only on close or exit; after any other line it is
\* reading the next command.
C9_NoFatalLine ==
  \/ pc = "reading"
  \/ /\ pc = "stopped"
     /\ split(input) # <<>>
     /\ Head(split(input)) \in {kwClose, kwExit}

(***************************************************************************)
(* Properties of the classes.                                              *)
(***************************************************************************)
\* C5: delete(name) with a name that is not a key raises no error and
\* leaves the records unchanged.
C5_DeleteAbsentIsNoop ==
  [][(input'.op = "delete" /\ input'.args[1] \notin Keys(book))
       => (out'.kind = "returned" /\ book' = book)]_vars

\* C8: get_upcoming_birthdays(days) returns only entries dated within
\* today .. today + days.
C8_WindowHonoured ==
  (input.op = "get_upcoming_birthdays" /\ out.kind = "returned") =>
    \A e \in Entries :
      /\ toordinal(today) <= toordinal(EntryDate(e))
      /\ toordinal(EntryDate(e)) <= toordinal(today) + input.args[1]

\* C10: every record of the book has a name that is neither empty nor
\* made of whitespace only.
C10_NamesNotBlank ==
  \A i \in 1..Len(book) : Len(book[i].name) > 0 /\ ~isspace(book[i].name)

====
